---- MODULE Spec2Model ----
(***************************************************************************)
(* Model of spc_ingestion (src/spc_ingestion/src/lib.rs): the six          *)
(* #[pyfunction]s hash_blake3, hash_blake3_keyed, normalize_unicode_nfc,   *)
(* normalize_unicode_nfd, compute_merkle_root, segment_graphemes and the   *)
(* two unit tests.                                                         *)
(*                                                                         *)
(* Strings and byte slices are sequences of numbers (bytes for &[u8] and   *)
(* for the ASCII digest strings, Unicode scalar values for &str text).     *)
(*                                                                         *)
(* The crates the file calls are not part of the repository:               *)
(*   - blake3: the compression function is replaced by a small             *)
(*     deterministic mixing function with the same interface (an           *)
(*     incremental hasher, a 32-byte output, to_hex);                      *)
(*   - unicode_normalization / unicode_segmentation: the algorithms of     *)
(*     UAX #15 and UAX #29 with the Unicode character data restricted      *)
(*     to the code points listed in CP.                                    *)
(***************************************************************************)
EXTENDS Integers, Sequences, FiniteSets

(***************************************************************************)
(* Bounds of the model.                                                    *)
(***************************************************************************)
\* longest byte slice passed as `data`
MaxData == 2
\* longest `hashes` list passed to compute_merkle_root
MaxList == 3
\* longest text (in code points) passed to the normalizers and the segmenter
MaxText == 3
\* number of concurrent callers in SpecConc
NThreads == 2

(***************************************************************************)
(* Program constants.                                                      *)
(***************************************************************************)
\* `if key.len() != 32`, `[0u8; 32]`
KEY_LEN == 32
\* blake3::OUT_LEN: "32 bytes = 64 hex chars"
OUT_LEN == 32

(***************************************************************************)
(* Generic sequence helpers.                                               *)
(***************************************************************************)
RECURSIVE Flatten(_)
\* [String]::join(""), and the concatenation of a sequence of sequences
Flatten(ss) == IF ss = <<>> THEN <<>> ELSE Head(ss) \o Flatten(Tail(ss))

Range(s) == {s[i] : i \in DOMAIN s}

SeqsUpTo(S, n) == UNION {[1..k -> S] : k \in 0..n}

Fill(n, b) == [i \in 1..n |-> b]

(***************************************************************************)
(* blake3 (stand-in for the crate's compression function).                 *)
(***************************************************************************)
RECURSIVE Absorb(_, _)
\* Hasher::update: the chaining value after absorbing bytes, in order
Absorb(h, bytes) ==
    IF bytes = <<>> THEN h
    ELSE Absorb((h * 257 + Head(bytes) + 1) % 65521, Tail(bytes))

\* Hasher::new_keyed(&key_array): the key is the initial chaining value
KeyedIV(key_array) == Absorb(2, key_array)

\* Hasher::finalize: the OUT_LEN output bytes
Finalize(h) ==
    [i \in 1..OUT_LEN |->
        ((IF i % 2 = 0 THEN h \div 256 ELSE h) + 13 * i) % 256]

\* blake3::hash(data)
blake3_hash(bytes) == Finalize(Absorb(1, bytes))

\* the digits of Hash::to_hex: b"0123456789abcdef"
HexDigits == <<48, 49, 50, 51, 52, 53, 54, 55, 56, 57, 97, 98, 99, 100, 101, 102>>

\* to_hex with upper-case digits
to_hex_upper(bytes) ==
    LET up == <<48, 49, 50, 51, 52, 53, 54, 55, 56, 57, 65, 66, 67, 68, 69, 70>>
    IN  Flatten([i \in 1..Len(bytes) |->
            <<up[(bytes[i] \div 16) + 1], up[(bytes[i] % 16) + 1]>>])

\* Hash::to_hex().to_string(): two lower-case hex digits per byte
to_hex(bytes) ==
    Flatten([i \in 1..Len(bytes) |->
        <<HexDigits[(bytes[i] \div 16) + 1], HexDigits[(bytes[i] % 16) + 1]>>])

(***************************************************************************)
(* String order and sort: <String as Ord>::cmp and [String]::sort.         *)
(***************************************************************************)
RECURSIVE StrLeByLength(_, _)
\* an order that compares digit strings by numeric value: shorter first
StrLeByLength(a, b) ==
    IF Len(a) # Len(b) THEN Len(a) < Len(b)
    ELSE IF a = <<>> THEN TRUE
    ELSE IF a[1] # b[1] THEN a[1] < b[1]
    ELSE StrLeByLength(Tail(a), Tail(b))

RECURSIVE StrLe(_, _)
\* a <= b for Strings: byte-wise lexicographic, a proper prefix is smaller
StrLe(a, b) ==
    IF a = <<>> THEN TRUE
    ELSE IF b = <<>> THEN FALSE
    ELSE IF a[1] # b[1] THEN a[1] < b[1]
    ELSE StrLe(Tail(a), Tail(b))

RECURSIVE InsertSorted(_, _)
\* x placed after the elements that are <= x (the sort is stable)
InsertSorted(x, s) ==
    IF s = <<>> THEN <<x>>
    ELSE IF StrLe(Head(s), x) THEN <<Head(s)>> \o InsertSorted(x, Tail(s))
    ELSE <<x>> \o s

RECURSIVE SortByInsertion(_)
SortByInsertion(l) ==
    IF l = <<>> THEN <<>>
    ELSE InsertSorted(l[Len(l)], SortByInsertion(SubSeq(l, 1, Len(l) - 1)))

\* the list left as the caller gave it
SortSkipped(l) == l

RECURSIVE Dedup(_)
\* Vec::dedup on a sorted vector
Dedup(l) ==
    IF Len(l) < 2 THEN l
    ELSE IF l[1] = l[2] THEN Dedup(Tail(l))
    ELSE <<l[1]>> \o Dedup(Tail(l))

\* sort followed by dedup: the digests taken as a set
SortDedup(l) == Dedup(SortByInsertion(l))

\* sorted_hashes.sort()
SortStrings(l) == SortByInsertion(l)

\* hashes.is_empty() answering false for every list
IsEmptyNever(l) == FALSE

\* hashes.is_empty()
IsEmpty(l) == Len(l) = 0

\* compute_merkle_root on `hashes` run to its end, as a function
MerkleRoot(l) ==
    IF IsEmpty(l) THEN [kind |-> "err", val |-> "Hash list cannot be empty"]
    ELSE [kind |-> "ok",
          val  |-> to_hex(blake3_hash(Flatten(SortStrings(l))))]

(***************************************************************************)
(* Unicode character data, restricted to the code points of CP.            *)
(***************************************************************************)
CP == [c |-> 99, e |-> 101, a |-> 97, f |-> 102,
       acute |-> 769, cedilla |-> 807,
       c_cedilla |-> 231, c_acute |-> 263, c_cedilla_acute |-> 7689,
       e_acute |-> 233,
       sqrt |-> 8730, copyright |-> 169,
       cr |-> 13, lf |-> 10, zwj |-> 8205,
       thumbs_up |-> 128077, skin_tone |-> 127997, regional_a |-> 127462]

\* Canonical_Combining_Class
CCC(ch) ==
    IF ch = CP.acute THEN 230
    ELSE IF ch = CP.cedilla THEN 202
    ELSE 0

\* the canonical Decomposition_Mapping of one code point (one level)
DecompositionMapping(ch) ==
    IF ch = CP.c_cedilla THEN <<CP.c, CP.cedilla>>
    ELSE IF ch = CP.c_acute THEN <<CP.c, CP.acute>>
    ELSE IF ch = CP.c_cedilla_acute THEN <<CP.c_cedilla, CP.acute>>
    ELSE IF ch = CP.e_acute THEN <<CP.e, CP.acute>>
    ELSE <<ch>>

\* the primary composite of a starter and a following code point, 0 if none
PrimaryComposite(l, ch) ==
    IF l = CP.c /\ ch = CP.cedilla THEN CP.c_cedilla
    ELSE IF l = CP.c /\ ch = CP.acute THEN CP.c_acute
    ELSE IF l = CP.c_cedilla /\ ch = CP.acute THEN CP.c_cedilla_acute
    ELSE IF l = CP.e /\ ch = CP.acute THEN CP.e_acute
    ELSE 0

\* number of bytes of a scalar value in UTF-8
Utf8Width(ch) ==
    IF ch < 128 THEN 1 ELSE IF ch < 2048 THEN 2 ELSE IF ch < 65536 THEN 3 ELSE 4

RECURSIVE Utf8Len(_)
\* str::len(): the length in bytes
Utf8Len(t) == IF t = <<>> THEN 0 ELSE Utf8Width(Head(t)) + Utf8Len(Tail(t))

(***************************************************************************)
(* Normalizer: UnicodeNormalization::nfd() and ::nfc().                    *)
(***************************************************************************)
\* a decomposition that applies the mapping once, not to its own output
DecomposeOneLevel(ch) == DecompositionMapping(ch)

RECURSIVE DecomposeFully(_)
DecomposeFully(ch) ==
    LET m == DecompositionMapping(ch)
    IN  IF m = <<ch>> THEN m
        ELSE Flatten([i \in 1..Len(m) |-> DecomposeFully(m[i])])

\* the full canonical decomposition of one code point
Decompose(ch) == DecomposeFully(ch)

RECURSIVE CanonicalOrder(_)
\* the Canonical Ordering Algorithm: adjacent non-starters out of order
\* are exchanged until none is left
CanonicalOrder(s) ==
    LET bad == {i \in 1..(Len(s) - 1) :
                    CCC(s[i + 1]) # 0 /\ CCC(s[i]) > CCC(s[i + 1])}
    IN  IF bad = {} THEN s
        ELSE LET i == CHOOSE k \in bad : \A j \in bad : k <= j
             IN  CanonicalOrder([s EXCEPT ![i] = s[i + 1], ![i + 1] = s[i]])

\* text.nfd().collect()
NFD(t) == CanonicalOrder(Flatten([i \in 1..Len(t) |-> Decompose(t[i])]))

RECURSIVE Recompose(_, _, _, _, _)
\* the Canonical Composition Algorithm over a decomposed string `rest`:
\* out      - what is already emitted, before the current starter
\* starter  - the current starter (0: none yet)
\* marks    - the code points kept after the starter
\* last_ccc - the class of the last kept code point (-1: none kept)
Recompose(out, starter, marks, last_ccc, rest) ==
    IF rest = <<>>
    THEN out \o (IF starter = 0 THEN <<>> ELSE <<starter>>) \o marks
    ELSE LET ch == Head(rest)
             cls == CCC(ch)
             blocked == last_ccc # -1 /\ last_ccc >= cls
             comp == IF starter = 0 \/ blocked THEN 0
                     ELSE PrimaryComposite(starter, ch)
         IN  IF comp # 0
             THEN Recompose(out, comp, marks, last_ccc, Tail(rest))
             ELSE IF cls = 0
             THEN Recompose(
                      out \o (IF starter = 0 THEN <<>> ELSE <<starter>>) \o marks,
                      ch, <<>>, -1, Tail(rest))
             ELSE IF starter = 0
             THEN Recompose(out \o <<ch>>, 0, <<>>, -1, Tail(rest))
             ELSE Recompose(out, starter, marks \o <<ch>>, cls, Tail(rest))

\* text.nfc().collect()
NFC(t) == Recompose(<<>>, 0, <<>>, -1, NFD(t))

(***************************************************************************)
(* Segmenter: UnicodeSegmentation::graphemes(true), the extended           *)
(* grapheme clusters of UAX #29.                                           *)
(***************************************************************************)
\* Grapheme_Cluster_Break, with Extended_Pictographic as a value of its own
GCB(ch) ==
    IF ch = CP.cr THEN "CR"
    ELSE IF ch = CP.lf THEN "LF"
    ELSE IF ch \in {CP.acute, CP.cedilla, CP.skin_tone} THEN "Extend"
    ELSE IF ch = CP.zwj THEN "ZWJ"
    ELSE IF ch = CP.regional_a THEN "Regional_Indicator"
    ELSE IF ch = CP.thumbs_up THEN "Extended_Pictographic"
    ELSE "Other"

\* the number of consecutive Regional_Indicator code points ending at t[i]
RECURSIVE RICountBefore(_, _)
RICountBefore(t, i) ==
    IF i < 1 \/ GCB(t[i]) # "Regional_Indicator" THEN 0
    ELSE 1 + RICountBefore(t, i - 1)

\* GB11: t[i] is a ZWJ that ends  Extended_Pictographic Extend* ZWJ
RECURSIVE AfterPictographic(_, _)
AfterPictographic(t, i) ==
    IF i < 1 THEN FALSE
    ELSE IF GCB(t[i]) = "Extended_Pictographic" THEN TRUE
    ELSE IF GCB(t[i]) = "Extend" THEN AfterPictographic(t, i - 1)
    ELSE FALSE

\* a boundary after every code point, as str::chars() would give
BoundaryEverywhere(t, i) == TRUE

\* whether a cluster boundary lies between t[i] and t[i + 1]
Boundary(t, i) ==
    LET l == GCB(t[i])
        r == GCB(t[i + 1])
    IN  IF l = "CR" /\ r = "LF" THEN FALSE                      \* GB3
        ELSE IF l \in {"CR", "LF"} THEN TRUE                      \* GB4
        ELSE IF r \in {"CR", "LF"} THEN TRUE                      \* GB5
        ELSE IF r \in {"Extend", "ZWJ"} THEN FALSE                \* GB9
        ELSE IF l = "ZWJ" /\ r = "Extended_Pictographic"
                /\ AfterPictographic(t, i - 1) THEN FALSE         \* GB11
        ELSE IF l = "Regional_Indicator" /\ r = "Regional_Indicator"
                /\ RICountBefore(t, i) % 2 = 1 THEN FALSE         \* GB12, GB13
        ELSE TRUE                                                 \* GB999

RECURSIVE Clusters(_, _, _)
\* the clusters of t from position `from`, the scan being at position i
Clusters(t, from, i) ==
    IF from > Len(t) THEN <<>>
    ELSE IF i = Len(t) THEN <<SubSeq(t, from, i)>>
    ELSE IF Boundary(t, i) THEN <<SubSeq(t, from, i)>> \o Clusters(t, i + 1, i + 1)
    ELSE Clusters(t, from, i + 1)

\* text.graphemes(true).map(|g| g.to_string()).collect()
Graphemes(t) == Clusters(t, 1, 1)

(***************************************************************************)
(* Inputs the callers draw from.                                           *)
(***************************************************************************)
DataInputs == SeqsUpTo({0, 104, 255}, MaxData)

\* key lengths around KEY_LEN, each with two contents
KeyInputs == {Fill(n, b) : n \in {0, 16, 31, 32, 33}, b \in {0, 7}}

\* "", "1", "9", "10", "19": accepted as they are, digests or not
HashStrings == {<<>>, <<49>>, <<57>>, <<49, 48>>, <<49, 57>>}

HashLists == SeqsUpTo(HashStrings, MaxList)

NormTexts ==
    SeqsUpTo({CP.c, CP.acute, CP.cedilla, CP.c_cedilla, CP.c_acute,
              CP.c_cedilla_acute}, MaxText)

SegTexts ==
    SeqsUpTo({CP.c, CP.acute, CP.cr, CP.lf, CP.thumbs_up, CP.skin_tone,
              CP.zwj, CP.regional_a}, MaxText)

\* the inputs of the concurrent callers
ConcData == {<<104>>}
ConcKeys == {Fill(31, 0), Fill(32, 7)}
ConcLists == {<<>>, <<<<57>>, <<49, 48>>>>}
ConcTexts == {<<CP.c_acute, CP.cedilla>>}

\* b"hello world"
HelloWorld == <<104, 101, 108, 108, 111, 32, 119, 111, 114, 108, 100>>

\* the literal of test_unicode_normalization, as the bytes of the file
\* decode: c a f U+221A U+00A9
TestText == <<CP.c, CP.a, CP.f, CP.sqrt, CP.copyright>>

(***************************************************************************)
(* State.                                                                  *)
(***************************************************************************)
VARIABLES
    pc,             \* per caller: where its call stands
    op,             \* per caller: the function it called
    data,           \* per caller: argument `data`
    key,            \* per caller: argument `key`
    text,           \* per caller: argument `text`
    hashes,         \* per caller: argument `hashes`
    result,         \* per caller: the PyResult returned
    key_array,      \* per frame: let mut key_array
    hasher,         \* per frame: let mut hasher
    sorted_hashes,  \* per frame: let mut sorted_hashes
    combined,       \* per frame: let combined
    prev,           \* the hash_blake3 call that returned last
    tests           \* outcome of each unit test

vars == <<pc, op, data, key, text, hashes, result, key_array, hasher,
          sorted_hashes, combined, prev, tests>>

args == <<data, key, text, hashes>>
locals == <<key_array, hasher, sorted_hashes, combined>>

Threads == 1..NThreads

\* all callers share one set of locals (a static scratch area)
FrameShared(t) == 1

\* the frame holding the locals of caller t's call: one per call
Frame(t) == t

NoResult == [kind |-> "none", val |-> <<>>]
NoHasher == [live |-> FALSE, h |-> 0, updates |-> 0]
NoPrev == [set |-> FALSE, data |-> <<>>, val |-> <<>>]

Ok(v) == [kind |-> "ok", val |-> v]
ValueError(msg) == [kind |-> "err", val |-> msg]
Panic == [kind |-> "panic", val |-> "copy_from_slice: length mismatch"]

Init ==
    /\ pc = [t \in Threads |-> "idle"]
    /\ op = [t \in Threads |-> "none"]
    /\ data = [t \in Threads |-> <<>>]
    /\ key = [t \in Threads |-> <<>>]
    /\ text = [t \in Threads |-> <<>>]
    /\ hashes = [t \in Threads |-> <<>>]
    /\ result = [t \in Threads |-> NoResult]
    /\ key_array = [f \in Threads |-> <<>>]
    /\ hasher = [f \in Threads |-> NoHasher]
    /\ sorted_hashes = [f \in Threads |-> <<>>]
    /\ combined = [f \in Threads |-> <<>>]
    /\ prev = NoPrev
    /\ tests = [n \in {"test_blake3_hash", "test_unicode_normalization"} |->
                    "not run"]

\* caller t enters function f at label l
Enter(t, f, l) ==
    /\ pc[t] = "idle"
    /\ \A n \in DOMAIN tests : tests[n] = "not run"
    /\ pc' = [pc EXCEPT ![t] = l]
    /\ op' = [op EXCEPT ![t] = f]
    /\ prev' = IF f = "hash_blake3" THEN prev ELSE NoPrev
    /\ UNCHANGED <<result, locals, tests>>

\* caller t's call returns r
Finish(t, r) ==
    /\ pc' = [pc EXCEPT ![t] = "done"]
    /\ result' = [result EXCEPT ![t] = r]

(***************************************************************************)
(* hash_blake3                                                             *)
(***************************************************************************)
CallHashBlake3(t, D) ==
    /\ \E d \in D : data' = [data EXCEPT ![t] = d]
    /\ Enter(t, "hash_blake3", "hash")
    /\ UNCHANGED <<key, text, hashes>>

\* Ok(blake3::hash(data).to_hex().to_string())
HashBlake3(t) ==
    /\ pc[t] = "hash"
    /\ Finish(t, Ok(to_hex(blake3_hash(data[t]))))
    /\ UNCHANGED <<op, args, locals, prev, tests>>

(***************************************************************************)
(* hash_blake3_keyed                                                       *)
(***************************************************************************)
CallHashBlake3Keyed(t, D, K) ==
    /\ \E d \in D, k \in K :
          /\ data' = [data EXCEPT ![t] = d]
          /\ key' = [key EXCEPT ![t] = k]
    /\ Enter(t, "hash_blake3_keyed", "keyed_check")
    /\ UNCHANGED <<text, hashes>>

\* a check that rejects only the keys that are too short
KeyLengthTooShort(k) == Len(k) < KEY_LEN

\* key.len() != 32
KeyLengthInvalid(k) == Len(k) # KEY_LEN

\* if key.len() != 32 { return Err(PyValueError) }
KeyedCheck(t) ==
    /\ pc[t] = "keyed_check"
    /\ IF KeyLengthInvalid(key[t])
       THEN Finish(t, ValueError("Key must be exactly 32 bytes"))
       ELSE /\ pc' = [pc EXCEPT ![t] = "keyed_copy"]
            /\ UNCHANGED result
    /\ UNCHANGED <<op, args, locals, prev, tests>>

\* let mut key_array = [0u8; 32]; key_array.copy_from_slice(key);
\* copy_from_slice panics when the two lengths differ
KeyedCopy(t) ==
    /\ pc[t] = "keyed_copy"
    /\ IF Len(key[t]) = KEY_LEN
       THEN /\ key_array' = [key_array EXCEPT ![Frame(t)] = key[t]]
            /\ pc' = [pc EXCEPT ![t] = "keyed_new"]
            /\ UNCHANGED result
       ELSE /\ key_array' = [key_array EXCEPT ![Frame(t)] = Fill(KEY_LEN, 0)]
            /\ Finish(t, Panic)
    /\ UNCHANGED <<op, args, hasher, sorted_hashes, combined, prev, tests>>

\* let mut hasher = blake3::Hasher::new_keyed(&key_array);
KeyedNew(t) ==
    /\ pc[t] = "keyed_new"
    /\ hasher' = [hasher EXCEPT ![Frame(t)] =
                    [live |-> TRUE, h |-> KeyedIV(key_array[Frame(t)]),
                     updates |-> 0]]
    /\ pc' = [pc EXCEPT ![t] = "keyed_update"]
    /\ UNCHANGED <<op, args, result, key_array, sorted_hashes, combined,
                   prev, tests>>

\* hasher.update(data);
KeyedUpdate(t) ==
    /\ pc[t] = "keyed_update"
    /\ hasher' = [hasher EXCEPT ![Frame(t)] =
                    [live |-> @.live, h |-> Absorb(@.h, data[t]),
                     updates |-> @.updates + 1]]
    /\ pc' = [pc EXCEPT ![t] = "keyed_finalize"]
    /\ UNCHANGED <<op, args, result, key_array, sorted_hashes, combined,
                   prev, tests>>

\* Ok(hasher.finalize().to_hex().to_string())
KeyedFinalize(t) ==
    /\ pc[t] = "keyed_finalize"
    /\ Finish(t, Ok(to_hex(Finalize(hasher[Frame(t)].h))))
    /\ UNCHANGED <<op, args, locals, prev, tests>>

(***************************************************************************)
(* normalize_unicode_nfc, normalize_unicode_nfd                            *)
(***************************************************************************)
CallNormalizeNfc(t, T) ==
    /\ \E x \in T : text' = [text EXCEPT ![t] = x]
    /\ Enter(t, "normalize_unicode_nfc", "nfc")
    /\ UNCHANGED <<data, key, hashes>>

\* Ok(text.nfc().collect::<String>())
NormalizeNfc(t) ==
    /\ pc[t] = "nfc"
    /\ Finish(t, Ok(NFC(text[t])))
    /\ UNCHANGED <<op, args, locals, prev, tests>>

CallNormalizeNfd(t, T) ==
    /\ \E x \in T : text' = [text EXCEPT ![t] = x]
    /\ Enter(t, "normalize_unicode_nfd", "nfd")
    /\ UNCHANGED <<data, key, hashes>>

\* Ok(text.nfd().collect::<String>())
NormalizeNfd(t) ==
    /\ pc[t] = "nfd"
    /\ Finish(t, Ok(NFD(text[t])))
    /\ UNCHANGED <<op, args, locals, prev, tests>>

(***************************************************************************)
(* compute_merkle_root                                                     *)
(***************************************************************************)
CallComputeMerkleRoot(t, L) ==
    /\ \E l \in L : hashes' = [hashes EXCEPT ![t] = l]
    /\ Enter(t, "compute_merkle_root", "root_check")
    /\ UNCHANGED <<data, key, text>>

\* if hashes.is_empty() { return Err(PyValueError) }
RootCheck(t) ==
    /\ pc[t] = "root_check"
    /\ IF IsEmpty(hashes[t])
       THEN Finish(t, ValueError("Hash list cannot be empty"))
       ELSE /\ pc' = [pc EXCEPT ![t] = "root_clone"]
            /\ UNCHANGED result
    /\ UNCHANGED <<op, args, locals, prev, tests>>

\* let mut sorted_hashes = hashes.clone();
RootClone(t) ==
    /\ pc[t] = "root_clone"
    /\ sorted_hashes' = [sorted_hashes EXCEPT ![Frame(t)] = hashes[t]]
    /\ pc' = [pc EXCEPT ![t] = "root_sort"]
    /\ UNCHANGED <<op, args, result, key_array, hasher, combined, prev, tests>>

\* sorted_hashes.sort();
RootSort(t) ==
    /\ pc[t] = "root_sort"
    /\ sorted_hashes' = [sorted_hashes EXCEPT ![Frame(t)] = SortStrings(@)]
    /\ pc' = [pc EXCEPT ![t] = "root_join"]
    /\ UNCHANGED <<op, args, result, key_array, hasher, combined, prev, tests>>

\* let combined = sorted_hashes.join("");
RootJoin(t) ==
    /\ pc[t] = "root_join"
    /\ combined' = [combined EXCEPT ![Frame(t)] = Flatten(sorted_hashes[Frame(t)])]
    /\ pc' = [pc EXCEPT ![t] = "root_hash"]
    /\ UNCHANGED <<op, args, result, key_array, hasher, sorted_hashes, prev,
                   tests>>

\* Ok(blake3::hash(combined.as_bytes()).to_hex().to_string())
RootHash(t) ==
    /\ pc[t] = "root_hash"
    /\ Finish(t, Ok(to_hex(blake3_hash(combined[Frame(t)]))))
    /\ UNCHANGED <<op, args, locals, prev, tests>>

(***************************************************************************)
(* segment_graphemes                                                       *)
(***************************************************************************)
CallSegmentGraphemes(t, T) ==
    /\ \E x \in T : text' = [text EXCEPT ![t] = x]
    /\ Enter(t, "segment_graphemes", "seg")
    /\ UNCHANGED <<data, key, hashes>>

\* Ok(text.graphemes(true).map(|g| g.to_string()).collect::<Vec<String>>())
SegmentGraphemes(t) ==
    /\ pc[t] = "seg"
    /\ Finish(t, Ok(Graphemes(text[t])))
    /\ UNCHANGED <<op, args, locals, prev, tests>>

(***************************************************************************)
(* The caller takes the result; the call's frame is gone.                  *)
(***************************************************************************)
Return(t) ==
    /\ pc[t] = "done"
    /\ prev' = IF op[t] = "hash_blake3"
               THEN [set |-> TRUE, data |-> data[t], val |-> result[t].val]
               ELSE prev
    /\ pc' = [pc EXCEPT ![t] = "idle"]
    /\ op' = [op EXCEPT ![t] = "none"]
    /\ data' = [data EXCEPT ![t] = <<>>]
    /\ key' = [key EXCEPT ![t] = <<>>]
    /\ text' = [text EXCEPT ![t] = <<>>]
    /\ hashes' = [hashes EXCEPT ![t] = <<>>]
    /\ result' = [result EXCEPT ![t] = NoResult]
    /\ key_array' = [key_array EXCEPT ![Frame(t)] = <<>>]
    /\ hasher' = [hasher EXCEPT ![Frame(t)] = NoHasher]
    /\ sorted_hashes' = [sorted_hashes EXCEPT ![Frame(t)] = <<>>]
    /\ combined' = [combined EXCEPT ![Frame(t)] = <<>>]
    /\ UNCHANGED tests

(***************************************************************************)
(* The unit tests. `cargo test` runs them in a process of its own, not in  *)
(* one that serves calls.                                                  *)
(***************************************************************************)
NoCallYet == \A t \in Threads : pc[t] = "idle" /\ ~prev.set

Outcome(assertion) == IF assertion THEN "passed" ELSE "failed"

\* assert_eq!(blake3::hash(b"hello world").to_hex().len(), 64)
TestBlake3Hash ==
    /\ NoCallYet
    /\ tests["test_blake3_hash"] = "not run"
    /\ tests' = [tests EXCEPT !["test_blake3_hash"] =
                    Outcome(Len(to_hex(blake3_hash(HelloWorld))) = 64)]
    /\ UNCHANGED <<pc, op, args, result, locals, prev>>

\* assert_ne!(nfc.len(), nfd.len()) for the nfc and nfd of the literal
TestUnicodeNormalization ==
    /\ NoCallYet
    /\ tests["test_unicode_normalization"] = "not run"
    /\ tests' = [tests EXCEPT !["test_unicode_normalization"] =
                    Outcome(Utf8Len(NFC(TestText)) # Utf8Len(NFD(TestText)))]
    /\ UNCHANGED <<pc, op, args, result, locals, prev>>

(***************************************************************************)
(* Specifications.                                                         *)
(***************************************************************************)
\* the steps inside the functions, for caller t
Step(t) ==
    \/ HashBlake3(t)
    \/ KeyedCheck(t)
    \/ KeyedCopy(t)
    \/ KeyedNew(t)
    \/ KeyedUpdate(t)
    \/ KeyedFinalize(t)
    \/ NormalizeNfc(t)
    \/ NormalizeNfd(t)
    \/ RootCheck(t)
    \/ RootClone(t)
    \/ RootSort(t)
    \/ RootJoin(t)
    \/ RootHash(t)
    \/ SegmentGraphemes(t)
    \/ Return(t)

\* one caller, one call at a time, over the full input sets
Next ==
    \/ CallHashBlake3(1, DataInputs)
    \/ CallHashBlake3Keyed(1, DataInputs, KeyInputs)
    \/ CallNormalizeNfc(1, NormTexts)
    \/ CallNormalizeNfd(1, NormTexts)
    \/ CallComputeMerkleRoot(1, HashLists)
    \/ CallSegmentGraphemes(1, SegTexts)
    \/ Step(1)
    \/ TestBlake3Hash
    \/ TestUnicodeNormalization

Spec == Init /\ [][Next]_vars

\* NThreads callers whose calls interleave step by step
NextConc ==
    \E t \in Threads :
        \/ CallHashBlake3(t, ConcData)
        \/ CallHashBlake3Keyed(t, ConcData, ConcKeys)
        \/ CallNormalizeNfc(t, ConcTexts)
        \/ CallNormalizeNfd(t, ConcTexts)
        \/ CallComputeMerkleRoot(t, ConcLists)
        \/ CallSegmentGraphemes(t, ConcTexts)
        \/ Step(t)

SpecConc == Init /\ [][NextConc]_vars

(***************************************************************************)
(* Vocabulary of the properties.                                           *)
(***************************************************************************)
Done(t, f) == pc[t] = "done" /\ op[t] = f

\* every rearrangement of the list l
Rearrangements(l) ==
    {[i \in 1..Len(l) |-> l[p[i]]] :
        p \in {q \in [1..Len(l) -> 1..Len(l)] : Range(q) = 1..Len(l)}}

Count(l, x) == Cardinality({i \in DOMAIN l : l[i] = x})

\* a and b hold the same strings the same number of times
SameMultiset(a, b) ==
    /\ Len(a) = Len(b)
    /\ \A x \in Range(a) \cup Range(b) : Count(a, x) = Count(b, x)

\* a <= b byte-wise: a is a prefix of b, or the first byte that differs
\* is smaller in a
LexLeq(a, b) ==
    \E k \in 0..Len(a) :
        /\ k <= Len(b)
        /\ \A i \in 1..k : a[i] = b[i]
        /\ \/ k = Len(a)
           \/ k < Len(b) /\ a[k + 1] < b[k + 1]

\* the rearrangement of l that ascends byte-wise
LexSorted(l) ==
    CHOOSE p \in Rearrangements(l) :
        \A i \in 1..(Len(p) - 1) : LexLeq(p[i], p[i + 1])

\* 64 characters, each of 0-9 a-f
IsHexDigest(v) ==
    /\ Len(v) = 64
    /\ \A i \in 1..Len(v) : v[i] \in (48..57) \cup (97..102)

(* C1: compute_merkle_root is order-independent: the root returned for a
   non-empty list is the root of every permutation of that list. *)
C1_OrderIndependent ==
    \A t \in Threads :
        Done(t, "compute_merkle_root") /\ hashes[t] # <<>> =>
            \A p \in Rearrangements(hashes[t]) : MerkleRoot(p) = result[t]

C1_Witness ==
    /\ Done(1, "compute_merkle_root")
    /\ hashes[1] = <<<<57>>, <<49, 48>>, <<49>>>>
    /\ result[1].kind = "ok"

(* C2: for a non-empty list the root is the hash of the bytes of the
   strings sorted byte-wise (not by numeric value) and concatenated with no
   separator; for a one-element list it is the hash of that string. *)
C2_SortedConcatenationHashed ==
    \A t \in Threads :
        /\ pc[t] = "root_hash" =>
              combined[Frame(t)] = Flatten(LexSorted(hashes[t]))
        /\ Done(t, "compute_merkle_root") /\ hashes[t] # <<>> =>
              /\ result[t] = Ok(to_hex(blake3_hash(Flatten(LexSorted(hashes[t])))))
              /\ Len(hashes[t]) = 1 =>
                    result[t] = Ok(to_hex(blake3_hash(hashes[t][1])))

C2_Witness ==
    /\ Done(1, "compute_merkle_root")
    /\ hashes[1] = <<<<57>>, <<49, 48>>>>
    /\ result[1] = Ok(to_hex(blake3_hash(<<49, 48, 57>>)))

(* C3: compute_merkle_root returns the value error "Hash list cannot be
   empty" exactly when the list has no element; every other list yields a
   digest. *)
C3_EmptyInputError ==
    \A t \in Threads :
        Done(t, "compute_merkle_root") =>
            IF hashes[t] = <<>>
            THEN result[t] = ValueError("Hash list cannot be empty")
            ELSE result[t].kind = "ok" /\ IsHexDigest(result[t].val)

C3_Witness ==
    /\ Done(1, "compute_merkle_root")
    /\ hashes[1] = <<>>
    /\ result[1].kind = "err"

(* C4: hash_blake3_keyed returns the value error for every key that is not
   exactly 32 bytes long, and does so before any hashing step: on that path
   the key copy is never reached, no keyed hasher is built and no data is
   fed to one. With a 32-byte key it returns a 64-character hex digest for
   every data, the empty one included. *)
C4_KeyLengthCheckedFirst ==
    \A t \in Threads :
        op[t] = "hash_blake3_keyed" =>
            IF Len(key[t]) # 32
            THEN /\ pc[t] \in {"keyed_check", "done"}
                 /\ key_array[Frame(t)] = <<>>
                 /\ ~hasher[Frame(t)].live
                 /\ hasher[Frame(t)].updates = 0
                 /\ pc[t] = "done" =>
                        result[t] = ValueError("Key must be exactly 32 bytes")
            ELSE pc[t] = "done" =>
                    result[t].kind = "ok" /\ IsHexDigest(result[t].val)

C4_Witness ==
    /\ Done(1, "hash_blake3_keyed")
    /\ Len(key[1]) = 33
    /\ data[1] = <<>>
    /\ result[1].kind = "err"
    /\ ~hasher[Frame(1)].live

(* C5: hash_blake3 is total and deterministic: for every byte slice, the
   empty one included, it returns Ok with 64 lower-case hex characters, and
   a call on the same bytes as the call before it returns the same string. *)
C5_HashTotalDeterministic ==
    /\ \A t \in Threads :
          Done(t, "hash_blake3") =>
              /\ result[t].kind = "ok"
              /\ IsHexDigest(result[t].val)
              /\ prev.set /\ prev.data = data[t] => prev.val = result[t].val
    /\ tests["test_blake3_hash"] # "failed"

C5_Witness ==
    /\ Done(1, "hash_blake3")
    /\ data[1] = <<>>
    /\ prev.set /\ prev.data = <<>>
    /\ IsHexDigest(result[1].val)

\* t holds no code point that decomposes, and its marks are in canonical order
InDecomposedForm(t) ==
    /\ \A i \in 1..Len(t) : DecompositionMapping(t[i]) = <<t[i]>>
    /\ \A i \in 1..(Len(t) - 1) :
          CCC(t[i + 1]) = 0 \/ CCC(t[i]) <= CCC(t[i + 1])

(* C6: both normalizers are idempotent: normalizing the result of
   normalize_unicode_nfc to NFC again, or that of normalize_unicode_nfd to
   NFD again, changes nothing; text already in decomposed form comes back
   from normalize_unicode_nfd unchanged. *)
C6_NormalizersIdempotent ==
    \A t \in Threads :
        /\ Done(t, "normalize_unicode_nfc") =>
              NFC(result[t].val) = result[t].val
        /\ Done(t, "normalize_unicode_nfd") =>
              /\ NFD(result[t].val) = result[t].val
              /\ InDecomposedForm(result[t].val)
              /\ InDecomposedForm(text[t]) => result[t].val = text[t]

C6_Witness ==
    /\ Done(1, "normalize_unicode_nfd")
    /\ text[1] = <<CP.c_cedilla_acute>>
    /\ result[1].val = <<CP.c, CP.cedilla, CP.acute>>

\* the positions of t after which the clusters cs end (the last one left out)
RECURSIVE Cuts(_)
Cuts(cs) ==
    IF Len(cs) < 2 THEN {}
    ELSE LET front == SubSeq(cs, 1, Len(cs) - 1)
         IN  Cuts(front) \cup {Len(Flatten(front))}

CombiningMarks == {CP.acute, CP.cedilla, CP.skin_tone}
BasesAndMarks == {CP.c, CP.thumbs_up} \cup CombiningMarks

(* C8: segment_graphemes returns the clusters in order, their concatenation
   is the text exactly, none is empty, the empty text gives no cluster, and
   a base letter or emoji is never separated from the combining marks or
   the modifier that follow it. *)
C8_GraphemesReconstructText ==
    \A t \in Threads :
        Done(t, "segment_graphemes") =>
            /\ result[t].kind = "ok"
            /\ Flatten(result[t].val) = text[t]
            /\ \A i \in 1..Len(result[t].val) : result[t].val[i] # <<>>
            /\ text[t] = <<>> => result[t].val = <<>>
            /\ \A i \in 1..(Len(text[t]) - 1) :
                  text[t][i] \in BasesAndMarks /\ text[t][i + 1] \in CombiningMarks
                      => i \notin Cuts(result[t].val)

C8_Witness ==
    /\ Done(1, "segment_graphemes")
    /\ text[1] = <<CP.thumbs_up, CP.skin_tone, CP.c>>
    /\ result[1].val = <<<<CP.thumbs_up, CP.skin_tone>>, <<CP.c>>>>

\* t holds a precomposed accented letter, or a base letter directly
\* followed by a combining mark it composes with
HasAccentedLetter(t) ==
    \/ \E i \in 1..Len(t) : DecompositionMapping(t[i]) # <<t[i]>>
    \/ \E i \in 1..(Len(t) - 1) : PrimaryComposite(t[i], t[i + 1]) # 0

(* C7, first half: for text holding an accented letter the NFD form is
   strictly longer than the NFC form. *)
C7_DecomposedIsLonger ==
    \A t \in Threads :
        /\ Done(t, "normalize_unicode_nfd") /\ HasAccentedLetter(text[t]) =>
              /\ Len(result[t].val) > Len(NFC(text[t]))
              /\ Utf8Len(result[t].val) > Utf8Len(NFC(text[t]))
        /\ Done(t, "normalize_unicode_nfc") /\ HasAccentedLetter(text[t]) =>
              /\ Len(NFD(text[t])) > Len(result[t].val)
              /\ Utf8Len(NFD(text[t])) > Utf8Len(result[t].val)

(* C7: for text holding an accented letter the NFD form is strictly longer
   than the NFC form, and the assertion of test_unicode_normalization, that
   the NFC and NFD forms of its literal differ in length, holds. *)
C7_AccentedTextAndTest ==
    /\ C7_DecomposedIsLonger
    /\ tests["test_unicode_normalization"] # "failed"

\* what caller t's call returns when nothing else runs
Alone(t) ==
    CASE op[t] = "hash_blake3" -> Ok(to_hex(blake3_hash(data[t])))
      [] op[t] = "hash_blake3_keyed" ->
            IF Len(key[t]) # KEY_LEN
            THEN ValueError("Key must be exactly 32 bytes")
            ELSE Ok(to_hex(Finalize(Absorb(KeyedIV(key[t]), data[t]))))
      [] op[t] = "normalize_unicode_nfc" -> Ok(NFC(text[t]))
      [] op[t] = "normalize_unicode_nfd" -> Ok(NFD(text[t]))
      [] op[t] = "compute_merkle_root" -> MerkleRoot(hashes[t])
      [] op[t] = "segment_graphemes" -> Ok(Graphemes(text[t]))

(* C9: the calls share no mutable state: under every interleaving of the
   steps of concurrent calls each call returns what it returns when run
   alone, and no step of a call changes the arguments the caller passed
   (compute_merkle_root sorts a copy of `hashes`). *)
C9_NoSharedState ==
    /\ [](\A t \in Threads : pc[t] = "done" => result[t] = Alone(t))
    /\ [][\A t \in Threads :
            pc[t] \notin {"idle", "done"} =>
                /\ hashes'[t] = hashes[t]
                /\ data'[t] = data[t]
                /\ key'[t] = key[t]
                /\ text'[t] = text[t]]_vars

C9_Witness ==
    /\ Done(1, "compute_merkle_root")
    /\ hashes[1] = <<<<57>>, <<49, 48>>>>
    /\ result[1] = MerkleRoot(hashes[1])
    /\ op[2] = "compute_merkle_root"
    /\ pc[2] = "root_join"

\* every string of a and of b has the same length n > 0
OneLength(a, b) ==
    \A x, y \in Range(a) \cup Range(b) : Len(x) = Len(y) /\ Len(x) > 0

(* C10 as stated: the string compute_merkle_root hashes determines the
   multiset of its inputs: any accepted non-empty list with the same
   sorted concatenation is a permutation of the list given. *)
C10_PreimageDeterminesInputs ==
    \A t \in Threads :
        pc[t] = "root_hash" =>
            \A other \in HashLists :
                other # <<>> /\ Flatten(SortStrings(other)) = combined[Frame(t)]
                    => SameMultiset(other, hashes[t])

(* C10 amended: among non-empty lists whose strings all have one common
   length greater than zero (as 64-character digests have), the string
   compute_merkle_root hashes determines the multiset of its inputs. *)
C10_PreimageDeterminesEqualLengthInputs ==
    \A t \in Threads :
        pc[t] = "root_hash" =>
            \A other \in HashLists :
                /\ other # <<>>
                /\ OneLength(other, hashes[t])
                /\ Flatten(SortStrings(other)) = combined[Frame(t)]
                => SameMultiset(other, hashes[t])

C10_Witness ==
    /\ pc[1] = "root_hash"
    /\ hashes[1] = <<<<49, 57>>, <<49, 48>>, <<49, 57>>>>
    /\ combined[Frame(1)] = <<49, 48, 49, 57, 49, 57>>
    /\ \E other \in HashLists :
          /\ other # hashes[1]
          /\ OneLength(other, hashes[1])
          /\ Flatten(SortStrings(other)) = combined[Frame(1)]

====
